---- MODULE Spec2Model ----
(***************************************************************************)
(* Model of the gopherci job scripts: jobs/gopherci.py (the dispatcher),   *)
(* jobs/localbuild.py (the standard orchestrator) and jobs/localtrusted.py *)
(* (the local-trusted orchestrator).                                       *)
(*                                                                         *)
(* Python strings are sequences of one-character strings, so that string   *)
(* formatting ("%s/%s"), str.startswith and re.match are computed on the   *)
(* characters.  A Python dict is a function whose DOMAIN is its key set.   *)
(* The Robot library calls (Exclusive, ExtendNamespace, AddTask,           *)
(* SpawnTask, Say, Log, SetParameter) and the executor's end of pipeline   *)
(* live outside jobs/; they are modelled from the specification.           *)
(***************************************************************************)
EXTENDS Integers, Sequences, FiniteSets, TLC

(***************************************************************************)
(* Bounds                                                                  *)
(***************************************************************************)
\* number of job invocations (events) in one behaviour
MaxInv == 2

\* largest number of builds of a key made before the behaviour starts (their
\* history slots are on disk when the first event arrives); with MaxInv more
\* allocations a key passes DefaultKeepHistory + 1 allocations
MaxPrior == 6

Inv == 1..MaxInv

(***************************************************************************)
(* String literals                                                         *)
(***************************************************************************)
STR_http == <<"h","t","t","p">>
STR_ssh_scheme == <<"s","s","h",":","/","/">>
STR_dash_p == <<"-","p">>
STR_true == <<"t","r","u","e">>
STR_pipeline_sh == <<".","g","o","p","h","e","r","c","i","/","p","i","p","e","l","i","n","e",".","s","h">>

\* keep_history default, localbuild.py line 48 and localtrusted.py line 34
DefaultKeepHistory == 7

(***************************************************************************)
(* str.startswith and the two regular expressions of localbuild.py         *)
(***************************************************************************)
\* s.startswith(prefix)
StartsWith(s, prefix) ==
    /\ Len(s) >= Len(prefix)
    /\ SubSeq(s, 1, Len(prefix)) = prefix

\* End (exclusive) of the greedy run [^stop]* starting at position from.
RunEnd(s, from, stop) ==
    LET hits == {i \in from..Len(s) : s[i] \in stop}
    IN  IF hits = {} THEN Len(s) + 1
        ELSE CHOOSE i \in hits : \A j \in hits : i <= j

\* Position after the greedy optional group (?:.*@)? tried at position from:
\* "." matches every character but the newline, so .* runs to the end of the
\* line and gives back to the last "@" of that line; without an "@" there
\* the group is skipped.  (Everything after the group can match the empty
\* string, so the first alternative the backtracking matcher tries is the
\* one it keeps.)
AfterUser(s, from) ==
    LET eol == RunEnd(s, from, {"\n"})
        ats == {i \in from..(eol - 1) : s[i] = "@"}
    IN  IF ats = {} THEN from
        ELSE (CHOOSE i \in ats : \A j \in ats : j <= i) + 1

\* re.match returned None
NoMatch == [matched |-> FALSE, g1 |-> <<>>, g2set |-> FALSE, g2 |-> <<>>]

\* re.match(r"ssh://(?:.*@)?([^:/]*)(?::([^/]*)/)?", url)
\* matched: the match object is not None; g1 = group(1);
\* g2set: group(2) is not None; g2 = group(2) when it is set.
MatchSshUrl(url) ==
    IF ~StartsWith(url, STR_ssh_scheme)
    THEN NoMatch
    ELSE LET h0 == AfterUser(url, Len(STR_ssh_scheme) + 1)
             h1 == RunEnd(url, h0, {":", "/"})
             p1 == RunEnd(url, h1 + 1, {"/"})
             hasPort == /\ h1 <= Len(url)
                        /\ url[h1] = ":"
                        /\ p1 <= Len(url)
         IN  [matched |-> TRUE,
              g1 |-> SubSeq(url, h0, h1 - 1),
              g2set |-> hasPort,
              g2 |-> IF hasPort THEN SubSeq(url, h1 + 1, p1 - 1) ELSE <<>>]

\* re.match(r"(?:.*@)?([^:/]*)", url): every string matches.
MatchScpUrl(url) ==
    LET h0 == AfterUser(url, 1)
        h1 == RunEnd(url, h0, {":", "/"})
    IN  [matched |-> TRUE, g1 |-> SubSeq(url, h0, h1 - 1),
         g2set |-> FALSE, g2 |-> <<>>]

\* Python truth value of match.group(2): None and "" are both false.
PortGiven(m) == m.g2set /\ m.g2 # <<>>

Task(name, args) == [name |-> name, args |-> args]


(***************************************************************************)
(* Inputs: repository names, branches, clone URLs, repositories.yaml       *)
(***************************************************************************)
RepoA == <<"a">>
RepoAB == <<"a","/","b">>
BranchC == <<"c">>
BranchBC == <<"b","/","c">>

\* repositories an event can name
RepoNames == {RepoA, RepoAB}
Branches == {BranchC, BranchBC}

\* localbuild's sys.argv: repository, branch and the rest, which is empty for
\* a primary build and names the triggering repository and branch for a
\* dependency build
BuildArgs ==
    {<<r, b, <<>>>> : r \in RepoNames, b \in Branches}
    \cup {<<RepoA, BranchC, <<RepoAB, BranchC>>>>}

URL_SshPort == <<"s","s","h",":","/","/","g","i","t","@","h","o","s","t",".","e","x","a","m","p","l","e",":","2","2","2","2","/","r","e","p","o",".","g","i","t">>
URL_SshNoPort == <<"s","s","h",":","/","/","h","o","s","t","/","r">>
URL_SshEmptyPort == <<"s","s","h",":","/","/","h",":","/","r">>
URL_Scp == <<"g","i","t","@","h","o","s","t",":","r","e","p","o",".","g","i","t">>
URL_Https == <<"h","t","t","p","s",":","/","/","h","o","s","t","/","r","e","p","o",".","g","i","t">>
URL_Http == <<"h","t","t","p",":","/","/","h","o","s","t","/","r","e","p","o",".","g","i","t">>
URL_Path == <<"/","s","r","v","/","r","e","p","o",".","g","i","t">>

\* entries of repositories.yaml: dicts with optional keys
ConfEntries ==
    << [type |-> "localbuild", clone_url |-> URL_SshPort, keep_history |-> 1],
       [type |-> "localbuild", clone_url |-> URL_SshNoPort, keep_history |-> 0],
       [type |-> "localbuild", clone_url |-> URL_SshEmptyPort],
       [type |-> "localtrusted", clone_url |-> URL_Scp, keep_history |-> 1],
       [type |-> "localtrusted", clone_url |-> URL_Path],
       [type |-> "none", clone_url |-> URL_Https, keep_history |-> 2],
       [type |-> "localbuild", keep_history |-> 1],
       [clone_url |-> URL_Http] >>

\* one repositories.yaml listing RepoA and RepoAB
RepoFile(ea, eab) == [r \in RepoNames |-> IF r = RepoA THEN ea ELSE eab]

\* What load(yamldata) returns: None for a file without a document (empty, or
\* comments only), otherwise the dict of the file.  None is the empty
\* sequence and a dict d is the one-element sequence <<d>>.
None == <<>>
Loaded(dict) == <<dict>>
Dict(data) == data[1]

\* the repositories.yaml files: an empty file (None), a file holding the empty
\* mapping {}, a file that lists RepoA alone, files pairing each entry with
\* the next one, and three more pairs
RepoDicts ==
    {[r \in {} |-> ConfEntries[1]], [r \in {RepoA} |-> ConfEntries[1]]}
    \cup {RepoFile(ConfEntries[i], ConfEntries[(i % Len(ConfEntries)) + 1]) :
            i \in 1..Len(ConfEntries)}
    \cup {RepoFile(ConfEntries[1], ConfEntries[1]),
          RepoFile(ConfEntries[3], ConfEntries[5]),
          RepoFile(ConfEntries[6], ConfEntries[8])}

RepoDatas == {None} \cup {Loaded(d) : d \in RepoDicts}

(***************************************************************************)
(* gopherci.py as a function of its inputs.  An outcome holds the Say, Log *)
(* and SpawnTask calls made and the way the script ended.                  *)
(***************************************************************************)
\* the "not listed" message sent to the user instead of the log
NotListed_Says(repository) ==
    [pc |-> "declined",
     says |-> <<[text |-> "not listed in repositories.yaml", arg |-> repository]>>,
     logs |-> <<>>, spawned |-> <<>>]

\* lines 32-34: the repository is not listed
NotListed(repository) ==
    [pc |-> "declined", says |-> <<>>,
     logs |-> <<[level |-> "Debug", text |-> "not listed in repositories.yaml",
                 arg |-> repository]>>,
     spawned |-> <<>>]

\* the missing type logged instead of reported to the user
NoType_LogOnly(repository) ==
    [pc |-> "error", says |-> <<>>,
     logs |-> <<[level |-> "Debug", text |-> "No 'type' specified", arg |-> repository]>>,
     spawned |-> <<>>]

\* lines 29-31: the entry has no type
NoType(repository) ==
    [pc |-> "error",
     says |-> <<[text |-> "No 'type' specified", arg |-> repository]>>,
     logs |-> <<>>, spawned |-> <<>>]

\* the handler spawned with its arguments swapped
Spawn_Swapped(repotype, repository, branch) ==
    [pc |-> "spawned", says |-> <<>>, logs |-> <<>>,
     spawned |-> <<[name |-> repotype, args |-> <<branch, repository>>]>>]

\* line 40: bot.SpawnTask(repotype, [ repository, branch ])
Spawn(repotype, repository, branch) ==
    [pc |-> "spawned", says |-> <<>>, logs |-> <<>>,
     spawned |-> <<[name |-> repotype, args |-> <<repository, branch>>]>>]

\* the exit() after the "none" diagnostic left out
DispatchType_NoExit(repotype, repository, branch) ==
    IF repotype = "none"
    THEN [pc |-> "spawned", says |-> <<>>,
          logs |-> <<[level |-> "Debug", text |-> "repository type is 'none'",
                      arg |-> repository]>>,
          spawned |-> <<[name |-> repotype, args |-> <<repository, branch>>]>>]
    ELSE Spawn(repotype, repository, branch)

\* lines 36-40: the "none" check, then the spawn
DispatchType(repotype, repository, branch) ==
    IF repotype = "none"
    THEN [pc |-> "declined", says |-> <<>>,
          logs |-> <<[level |-> "Debug", text |-> "repository type is 'none'",
                      arg |-> repository]>>,
          spawned |-> <<>>]
    ELSE Spawn(repotype, repository, branch)

\* line 25 on None: `repository in repodata` raises TypeError, which ends the
\* script with a traceback before any call of the robot
DispatchCrash == [pc |-> "crashed", says |-> <<>>, logs |-> <<>>, spawned |-> <<>>]

\* lines 25-40: the whole dispatch decision
Dispatch(data, repository, branch) ==
    IF data = None
    THEN DispatchCrash
    ELSE IF repository \in DOMAIN Dict(data)
    THEN LET repoconf == Dict(data)[repository]
         IN  IF "type" \in DOMAIN repoconf
             THEN DispatchType(repoconf.type, repository, branch)
             ELSE NoType(repository)
    ELSE NotListed(repository)

(***************************************************************************)
(* localbuild.py as functions of its inputs                                *)
(***************************************************************************)
\* lines 28-35: the SetParameter calls, in order
BuildParameters(repository, branch, dep) ==
    << <<"GOPHERCI_REPO", repository>>, <<"GOPHERCI_BRANCH", branch>> >>
    \o (IF Len(dep) > 0
        THEN << <<"GOPHERCI_DEPBUILD", STR_true>>,
                <<"GOPHERCI_DEPREPO", dep[1]>>,
                <<"GOPHERCI_DEPBRANCH", dep[2]>> >>
        ELSE <<>>)

\* the clone_url check left out
BuildConfig_NoUrlCheck(data, repository) ==
    IF data = None \/ repository \notin DOMAIN Dict(data)
    THEN [pc |-> "crashed", says |-> <<>>]
    ELSE [pc |-> "exclusive", says |-> <<>>]

\* lines 39-45: the lookup of the repository and the clone_url check.
\* repoconf is only bound when the repository is listed; reading it
\* otherwise raises NameError, which ends the script; on None the `in` test
\* itself raises TypeError, which ends the script the same way.
BuildConfig(data, repository) ==
    IF data = None \/ repository \notin DOMAIN Dict(data)
    THEN [pc |-> "crashed", says |-> <<>>]
    ELSE IF "clone_url" \notin DOMAIN Dict(data)[repository]
    THEN [pc |-> "error",
          says |-> <<[text |-> "No 'clone_url' specified", arg |-> repository]>>]
    ELSE [pc |-> "exclusive", says |-> <<>>]

\* the configured keep_history never read
KeepHistory_DefaultOnly(repoconf) == DefaultKeepHistory

\* one history too many kept
KeepHistory_OneMore(repoconf) ==
    IF "keep_history" \notin DOMAIN repoconf THEN DefaultKeepHistory
    ELSE repoconf.keep_history + 1

\* lines 47-50
KeepHistory(repoconf) ==
    IF "keep_history" \notin DOMAIN repoconf THEN DefaultKeepHistory
    ELSE repoconf.keep_history

\* line 52: "%s/%s" % (repository, branch)
RepoBranch(repository, branch) == repository \o <<"/">> \o branch

\* the test of Exclusive's result inverted
AfterExclusive_Inverted(got) == IF got THEN "busy" ELSE "extend"

\* the script going on whatever Exclusive returned
AfterExclusive_Ignored(got) == "extend"

\* lines 53-55: what the script does with Exclusive's result
AfterExclusive(got) == IF ~got THEN "busy" ELSE "extend"

\* the prefix test made with "https" instead of "http"
Classify_HttpsOnly(clone_url) ==
    IF StartsWith(clone_url, <<"h","t","t","p","s">>)
    THEN [isSSH |-> FALSE, match |-> NoMatch]
    ELSE LET match == MatchSshUrl(clone_url)
         IN  IF match.matched
             THEN [isSSH |-> TRUE, match |-> match]
             ELSE LET match2 == MatchScpUrl(clone_url)
                  IN  [isSSH |-> match2.matched, match |-> match2]

\* lines 58-60 and 67-68: which pattern, if any, decides that the ssh tasks
\* are added, and the match it produced
Classify(clone_url) ==
    IF StartsWith(clone_url, STR_http)
    THEN [isSSH |-> FALSE, match |-> NoMatch]
    ELSE LET match == MatchSshUrl(clone_url)
         IN  IF match.matched
             THEN [isSSH |-> TRUE, match |-> match]
             ELSE LET match2 == MatchScpUrl(clone_url)
                  IN  [isSSH |-> match2.matched, match |-> match2]

\* the port and the host handed to ssh-scan in the wrong order
SshTasks_HostFirst(clone_url) ==
    LET c == Classify(clone_url)
    IN  IF c.isSSH
        THEN <<Task("ssh-init", <<>>)>> \o
             (IF PortGiven(c.match)
              THEN <<Task("ssh-scan", <<STR_dash_p, c.match.g1, c.match.g2>>)>>
              ELSE <<Task("ssh-scan", <<c.match.g1>>)>>)
        ELSE <<>>

\* lines 58-70: the ssh AddTask calls, in order
SshTasks(clone_url) ==
    LET c == Classify(clone_url)
    IN  IF c.isSSH
        THEN <<Task("ssh-init", <<>>)>> \o
             (IF PortGiven(c.match)
              THEN <<Task("ssh-scan", <<STR_dash_p, c.match.g2, c.match.g1>>)>>
              ELSE <<Task("ssh-scan", <<c.match.g1>>)>>)
        ELSE <<>>

\* cleanup added before the pipeline task
BuildTasks_CleanupEarly(clone_url, branch, repobranch) ==
    SshTasks(clone_url)
    \o <<Task("git-sync", <<clone_url, branch, repobranch, STR_true>>),
         Task("cleanup", <<>>),
         Task("runpipeline", <<>>)>>

\* lines 58-73: all AddTask calls, in order
BuildTasks(clone_url, branch, repobranch) ==
    SshTasks(clone_url)
    \o <<Task("git-sync", <<clone_url, branch, repobranch, STR_true>>),
         Task("runpipeline", <<>>),
         Task("cleanup", <<>>)>>

(***************************************************************************)
(* localtrusted.py as functions of its inputs                              *)
(***************************************************************************)
\* lines 25-31: as in localbuild.py
TrustedConfig(data, repository) ==
    IF data = None \/ repository \notin DOMAIN Dict(data)
    THEN [pc |-> "crashed", says |-> <<>>]
    ELSE IF "clone_url" \notin DOMAIN Dict(data)[repository]
    THEN [pc |-> "error",
          says |-> <<[text |-> "No 'clone_url' specified", arg |-> repository]>>]
    ELSE [pc |-> "extend", says |-> <<>>]

\* lines 33-36
TrustedKeepHistory(repoconf) ==
    IF "keep_history" \notin DOMAIN repoconf THEN DefaultKeepHistory
    ELSE repoconf.keep_history

\* lines 39-40: the AddTask calls, in order
TrustedTasks(clone_url, branch, repository) ==
    <<Task("git-sync", <<clone_url, branch, repository, STR_true>>),
      Task("localexec", <<STR_pipeline_sh>>)>>

(***************************************************************************)
(* The Robot library, from the specification                               *)
(***************************************************************************)
\* Exclusivity Lock, tryAcquire(key): true exactly when the key is free
TryAcquire(held, key) == key \notin held

\* the newest retained slot evicted instead of the oldest
Allocate_EvictNewest(slots, index, keepHistory) ==
    LET all == Append(slots, index)
    IN  IF Len(all) > keepHistory
        THEN IF keepHistory = 0 THEN <<>>
             ELSE SubSeq(slots, 1, keepHistory - 1) \o <<index>>
        ELSE all

\* History/Namespace Manager, allocate(key, keepHistory): the new slot is
\* created and the oldest slots are evicted, in allocation order, so that no
\* more than keepHistory slots stay retained
Allocate(slots, index, keepHistory) ==
    LET all == Append(slots, index)
    IN  IF Len(all) > keepHistory
        THEN SubSeq(all, Len(all) - keepHistory + 1, Len(all))
        ELSE all

\* every key a script can pass to Exclusive or ExtendNamespace
Keys == {RepoBranch(r, b) : r \in RepoNames, b \in Branches} \cup RepoNames

(***************************************************************************)
(* State                                                                   *)
(***************************************************************************)
VARIABLES
    repodata,    \* what load (GetRepoData) returned: None or <<dict>>
    pc,          \* per invocation: where the script (or its pipeline) is
    job,         \* per invocation: "gopherci", "localbuild" or "localtrusted"
    repository,  \* per invocation: first argument
    branch,      \* per invocation: second argument
    params,      \* per invocation: SetParameter calls made
    says,        \* per invocation: Say calls made (user-visible messages)
    logs,        \* per invocation: Log calls made
    spawned,     \* per invocation: SpawnTask calls made
    tasks,       \* per invocation: AddTask calls made (the task chain)
    exclusive,   \* per invocation: the lock keys its pipeline holds
    locks,       \* the lock table: keys currently held
    history,     \* per key: the live history slots, oldest first
    allocs       \* per key: the allocations made, [by, keep], in order

vars == <<repodata, pc, job, repository, branch, params, says, logs, spawned,
          tasks, exclusive, locks, history, allocs>>

outputs == <<says, logs, spawned, tasks>>
shared == <<exclusive, locks, history, allocs>>

\* no event has arrived yet
NoEvent ==
    /\ pc = [p \in Inv |-> "idle"]
    /\ job = [p \in Inv |-> "idle"]
    /\ repository = [p \in Inv |-> <<>>]
    /\ branch = [p \in Inv |-> <<>>]
    /\ params = [p \in Inv |-> <<>>]
    /\ says = [p \in Inv |-> <<>>]
    /\ logs = [p \in Inv |-> <<>>]
    /\ spawned = [p \in Inv |-> <<>>]
    /\ tasks = [p \in Inv |-> <<>>]
    /\ exclusive = [p \in Inv |-> {}]
    /\ locks = {}
    /\ history = [k \in Keys |-> <<>>]
    /\ allocs = [k \in Keys |-> <<>>]

Init == repodata \in RepoDatas /\ NoEvent

\* invocations are numbered in the order their events arrive
CanStart(p) ==
    /\ pc[p] = "idle"
    /\ \A q \in Inv : q < p => pc[q] # "idle"

(***************************************************************************)
(* gopherci.py                                                             *)
(***************************************************************************)
DispatchEvent(p, r, b) ==
    LET out == Dispatch(repodata, r, b)
    IN  /\ CanStart(p)
        /\ job' = [job EXCEPT ![p] = "gopherci"]
        /\ repository' = [repository EXCEPT ![p] = r]
        /\ branch' = [branch EXCEPT ![p] = b]
        /\ says' = [says EXCEPT ![p] = out.says]
        /\ logs' = [logs EXCEPT ![p] = out.logs]
        /\ spawned' = [spawned EXCEPT ![p] = out.spawned]
        /\ pc' = [pc EXCEPT ![p] = out.pc]
        /\ UNCHANGED <<repodata, params, tasks, shared>>

(***************************************************************************)
(* localbuild.py                                                           *)
(***************************************************************************)
\* lines 26-50: arguments, parameters, configuration
LocalBuildStart(p, r, b, dep) ==
    LET out == BuildConfig(repodata, r)
    IN  /\ CanStart(p)
        /\ job' = [job EXCEPT ![p] = "localbuild"]
        /\ repository' = [repository EXCEPT ![p] = r]
        /\ branch' = [branch EXCEPT ![p] = b]
        /\ params' = [params EXCEPT ![p] = BuildParameters(r, b, dep)]
        /\ says' = [says EXCEPT ![p] = out.says]
        /\ pc' = [pc EXCEPT ![p] = out.pc]
        /\ UNCHANGED <<repodata, logs, spawned, tasks, shared>>

\* Exclusive called so that the script waits for the key to be free
LocalBuildExclusive_Waits(p) ==
    LET repobranch == RepoBranch(repository[p], branch[p])
    IN  /\ pc[p] = "exclusive"
        /\ job[p] = "localbuild"
        /\ TryAcquire(locks, repobranch)
        /\ locks' = locks \cup {repobranch}
        /\ exclusive' = [exclusive EXCEPT ![p] = {repobranch}]
        /\ pc' = [pc EXCEPT ![p] = "extend"]
        /\ UNCHANGED <<repodata, job, repository, branch, params, outputs,
                       history, allocs>>

\* ExtendNamespace called before the result of Exclusive is tested
LocalBuildExclusive_AllocFirst(p) ==
    LET repobranch == RepoBranch(repository[p], branch[p])
        got == TryAcquire(locks, repobranch)
        to == AfterExclusive(got)
        keep_history == KeepHistory(Dict(repodata)[repository[p]])
    IN  /\ pc[p] = "exclusive"
        /\ job[p] = "localbuild"
        /\ locks' = IF got THEN locks \cup {repobranch} ELSE locks
        /\ exclusive' = [exclusive EXCEPT ![p] = IF got THEN {repobranch} ELSE {}]
        /\ history' = [history EXCEPT ![repobranch] =
               Allocate(@, Len(allocs[repobranch]) + 1, keep_history)]
        /\ allocs' = [allocs EXCEPT ![repobranch] =
               Append(@, [by |-> p, keep |-> keep_history])]
        /\ logs' = [logs EXCEPT ![p] =
               IF to = "busy"
               THEN Append(@, [level |-> "Warn", text |-> "already in progress, exiting",
                               arg |-> repobranch])
               ELSE @]
        /\ pc' = [pc EXCEPT ![p] = IF to = "busy" THEN "busy" ELSE "submitted"]
        /\ tasks' = [tasks EXCEPT ![p] =
               IF to = "busy" THEN @
               ELSE @ \o BuildTasks(Dict(repodata)[repository[p]].clone_url, branch[p], repobranch)]
        /\ UNCHANGED <<repodata, job, repository, branch, params, says, spawned>>

\* lines 52-55: bot.Exclusive(repobranch, False)
LocalBuildExclusive(p) ==
    LET repobranch == RepoBranch(repository[p], branch[p])
        got == TryAcquire(locks, repobranch)
        to == AfterExclusive(got)
    IN  /\ pc[p] = "exclusive"
        /\ job[p] = "localbuild"
        /\ locks' = IF got THEN locks \cup {repobranch} ELSE locks
        /\ exclusive' = [exclusive EXCEPT ![p] = IF got THEN {repobranch} ELSE {}]
        /\ logs' = [logs EXCEPT ![p] =
               IF to = "busy"
               THEN Append(@, [level |-> "Warn", text |-> "already in progress, exiting",
                               arg |-> repobranch])
               ELSE @]
        /\ pc' = [pc EXCEPT ![p] = to]
        /\ UNCHANGED <<repodata, job, repository, branch, params, says, spawned,
                       tasks, history, allocs>>

\* lines 57-73: bot.ExtendNamespace(repobranch, keep_history), then the
\* AddTask calls (they reach this invocation's own pipeline only); the script
\* ends and the pipeline is queued
LocalBuildExtend(p) ==
    LET repobranch == RepoBranch(repository[p], branch[p])
        keep_history == KeepHistory(Dict(repodata)[repository[p]])
        clone_url == Dict(repodata)[repository[p]].clone_url
    IN  /\ pc[p] = "extend"
        /\ job[p] = "localbuild"
        /\ history' = [history EXCEPT ![repobranch] =
               Allocate(@, Len(allocs[repobranch]) + 1, keep_history)]
        /\ allocs' = [allocs EXCEPT ![repobranch] =
               Append(@, [by |-> p, keep |-> keep_history])]
        /\ tasks' = [tasks EXCEPT ![p] = @ \o BuildTasks(clone_url, branch[p], repobranch)]
        /\ pc' = [pc EXCEPT ![p] = "submitted"]
        /\ UNCHANGED <<repodata, job, repository, branch, params, says, logs,
                       spawned, exclusive, locks>>

(***************************************************************************)
(* localtrusted.py                                                         *)
(***************************************************************************)
\* lines 17-36: arguments, configuration
LocalTrustedStart(p, r, b) ==
    LET out == TrustedConfig(repodata, r)
    IN  /\ CanStart(p)
        /\ job' = [job EXCEPT ![p] = "localtrusted"]
        /\ repository' = [repository EXCEPT ![p] = r]
        /\ branch' = [branch EXCEPT ![p] = b]
        /\ says' = [says EXCEPT ![p] = out.says]
        /\ pc' = [pc EXCEPT ![p] = out.pc]
        /\ UNCHANGED <<repodata, params, logs, spawned, tasks, shared>>

\* lines 38-40: bot.ExtendNamespace(repository, keep_history), then the
\* AddTask calls; the script ends and the pipeline is queued
LocalTrustedExtend(p) ==
    LET keep_history == TrustedKeepHistory(Dict(repodata)[repository[p]])
        clone_url == Dict(repodata)[repository[p]].clone_url
    IN  /\ pc[p] = "extend"
        /\ job[p] = "localtrusted"
        /\ history' = [history EXCEPT ![repository[p]] =
               Allocate(@, Len(allocs[repository[p]]) + 1, keep_history)]
        /\ allocs' = [allocs EXCEPT ![repository[p]] =
               Append(@, [by |-> p, keep |-> keep_history])]
        /\ tasks' = [tasks EXCEPT ![p] = @ \o TrustedTasks(clone_url, branch[p], repository[p])]
        /\ pc' = [pc EXCEPT ![p] = "submitted"]
        /\ UNCHANGED <<repodata, job, repository, branch, params, says, logs,
                       spawned, exclusive, locks>>

(***************************************************************************)
(* The executor, from the specification                                    *)
(***************************************************************************)
\* the task chain of a build attempt ends (successfully or not); the locks
\* its pipeline holds are released
PipelineEnd(p) ==
    /\ pc[p] = "submitted"
    /\ locks' = locks \ exclusive[p]
    /\ exclusive' = [exclusive EXCEPT ![p] = {}]
    /\ pc' = [pc EXCEPT ![p] = "done"]
    /\ UNCHANGED <<repodata, job, repository, branch, params, outputs,
                   history, allocs>>

Next ==
    \/ \E p \in Inv, r \in RepoNames, b \in Branches : DispatchEvent(p, r, b)
    \/ \E p \in Inv, a \in BuildArgs : LocalBuildStart(p, a[1], a[2], a[3])
    \/ \E p \in Inv : LocalBuildExclusive(p)
    \/ \E p \in Inv : LocalBuildExtend(p)
    \/ \E p \in Inv, r \in RepoNames, b \in Branches : LocalTrustedStart(p, r, b)
    \/ \E p \in Inv : LocalTrustedExtend(p)
    \/ \E p \in Inv : PipelineEnd(p)

Spec == Init /\ [][Next]_vars

\* a step of the script of invocation p after its start
ScriptStep(p) ==
    LocalBuildExclusive(p) \/ LocalBuildExtend(p) \/ LocalTrustedExtend(p)

\* The same events and steps over two repositories.yaml files: one that
\* lists RepoA alone, and one whose RepoA entry lacks clone_url.
LockRepoDatas ==
    {Loaded([r \in {RepoA} |-> ConfEntries[3]]),
     Loaded(RepoFile(ConfEntries[7], ConfEntries[3]))}

LockInit == repodata \in LockRepoDatas /\ NoEvent

LockSpec == LockInit /\ [][Next]_vars

\* The history slots a key has after n builds made with retention
\* keepHistory: what n calls of allocate leave, one after the other.
RECURSIVE Prior(_, _)
Prior(n, keepHistory) ==
    IF n = 0 THEN <<>>
    ELSE Allocate(Prior(n - 1, keepHistory), n, keepHistory)

\* repositories.yaml files that list RepoA alone, with keep_history 1, 2 and
\* none (the default)
HistoryRepoDatas ==
    {Loaded([r \in {RepoA} |-> ConfEntries[i]]) : i \in {4, 6, 3}}

\* History slots outlive the builds that made them: when the first event
\* arrives every key has the slots of n earlier builds, n in 0..MaxPrior,
\* made under the same repositories.yaml by invocations that have ended
\* (recorded with by = 0).
HistoryInit ==
    /\ repodata \in HistoryRepoDatas
    /\ pc = [p \in Inv |-> "idle"]
    /\ job = [p \in Inv |-> "idle"]
    /\ repository = [p \in Inv |-> <<>>]
    /\ branch = [p \in Inv |-> <<>>]
    /\ params = [p \in Inv |-> <<>>]
    /\ says = [p \in Inv |-> <<>>]
    /\ logs = [p \in Inv |-> <<>>]
    /\ spawned = [p \in Inv |-> <<>>]
    /\ tasks = [p \in Inv |-> <<>>]
    /\ exclusive = [p \in Inv |-> {}]
    /\ locks = {}
    /\ \E n \in 0..MaxPrior :
           LET keep_history == KeepHistory(Dict(repodata)[RepoA])
           IN  /\ history = [k \in Keys |-> Prior(n, keep_history)]
               /\ allocs = [k \in Keys |->
                      [i \in 1..n |-> [by |-> 0, keep |-> keep_history]]]

HistorySpec == HistoryInit /\ [][Next]_vars

(***************************************************************************)
(* Properties                                                              *)
(***************************************************************************)
Started(p) == pc[p] # "idle"
Submitted(p) == pc[p] \in {"submitted", "done"}
Indices(seq, Test(_)) == {i \in 1..Len(seq) : Test(seq[i])}

\* the keep_history the configuration gives a repository: its keep_history
\* field, 7 without one
ConfiguredKeepHistory(r) ==
    IF "keep_history" \in DOMAIN Dict(repodata)[r] THEN Dict(repodata)[r].keep_history ELSE 7

\* a localbuild invocation that went past the lock check and whose build
\* attempt has not ended
InBuild(p) == job[p] = "localbuild" /\ pc[p] \in {"extend", "submitted"}

\* C1: in localbuild, at most one invocation at a time holds the lock of a
\* key and is past the lock check for it; an invocation that found the key
\* held has logged one warning, holds nothing and has submitted no task.
C1_OneBuildPerKey ==
    /\ \A p, q \in Inv :
           (p # q /\ InBuild(p) /\ InBuild(q))
               => RepoBranch(repository[p], branch[p]) # RepoBranch(repository[q], branch[q])
    /\ \A p, q \in Inv : p # q => exclusive[p] \cap exclusive[q] = {}
    /\ \A p \in Inv :
           InBuild(p) => exclusive[p] = {RepoBranch(repository[p], branch[p])}
    /\ \A p \in Inv :
           (job[p] = "localbuild" /\ pc[p] = "busy")
               => /\ exclusive[p] = {}
                  /\ tasks[p] = <<>>
                  /\ Len(logs[p]) = 1
                  /\ logs[p][1].level = "Warn"

\* two concurrent localbuild invocations for one (repository, branch): one
\* holds the lock, the other was turned away
C1_Witness ==
    \E p, q \in Inv :
        /\ p # q
        /\ repository[p] = repository[q] /\ branch[p] = branch[q]
        /\ InBuild(p) /\ exclusive[p] # {}
        /\ job[q] = "localbuild" /\ pc[q] = "busy"

\* C2: for every key, the number of live history slots does not exceed the
\* keep_history configured for the repository whose build allocated last.
C2_HistoryBounded ==
    \A k \in Keys :
        allocs[k] # <<>>
            => Len(history[k]) <= ConfiguredKeepHistory(repository[allocs[k][Len(allocs[k])].by])

\* a key whose history is full and has evicted a slot
C2_Witness ==
    \E k \in Keys :
        /\ Len(allocs[k]) >= 2
        /\ Len(history[k]) >= 1
        /\ Len(history[k]) < Len(allocs[k])
        /\ Len(history[k]) = ConfiguredKeepHistory(repository[allocs[k][Len(allocs[k])].by])

\* the slots left after n allocations with retention N: the N latest ones,
\* oldest first
LatestSlots(n, N) ==
    LET m == IF n < N THEN n ELSE N
    IN  [i \in 1..m |-> n - m + i]

\* the keep_history an allocation was made with: the one configured for the
\* repository of the invocation that made it, or the recorded one for an
\* allocation of a build made before the behaviour started
AllocKeep(a) ==
    IF a.by \in Inv THEN ConfiguredKeepHistory(repository[a.by]) ELSE a.keep

\* every allocation of key k was made with keep_history N
UniformKeep(k, N) == \A i \in 1..Len(allocs[k]) : AllocKeep(allocs[k][i]) = N

\* C3: history rotation is first-in-first-out by allocation sequence.  For a
\* key whose allocations were all made with keep_history N, the live slots
\* after n allocations are the min(n, N) latest ones (so after N+1
\* allocations the N slots 2..N+1 are live and slot 1 is gone); and each
\* allocation made when N slots are retained evicts the slot with the lowest
\* allocation sequence number and keeps the others in order.
C3_FifoRotation ==
    /\ [](\A k \in Keys : \A N \in 0..DefaultKeepHistory :
              UniformKeep(k, N) => history[k] = LatestSlots(Len(allocs[k]), N))
    /\ [][\A k \in Keys : \A N \in 1..DefaultKeepHistory :
              (/\ UniformKeep(k, N)'
               /\ Len(allocs'[k]) = Len(allocs[k]) + 1
               /\ Len(history[k]) = N)
                  => /\ \A i \in 1..N : history[k][1] <= history[k][i]
                     /\ history'[k] = Tail(history[k]) \o <<Len(allocs'[k])>>]_vars

\* a key with keep_history N >= 2 whose allocation N+1 was made by an
\* invocation of this behaviour: slot 1 was evicted out of N retained
\* slots, the slots 2..N+1 are live
C3_Witness ==
    \E k \in Keys : \E N \in 2..DefaultKeepHistory :
        /\ UniformKeep(k, N)
        /\ Len(allocs[k]) = N + 1
        /\ allocs[k][N + 1].by \in Inv
        /\ history[k] = [i \in 1..N |-> i + 1]

IsSync(t) == t.name = "git-sync"
IsPipeline(t) == t.name \in {"runpipeline", "localexec"}
IsCleanup(t) == t.name = "cleanup"

\* C4: every submitted task chain has exactly one git-sync and exactly one
\* pipeline-execution task, the git-sync first, and cleanup, if present, last.
C4_ChainOrder ==
    \A p \in Inv :
        (Submitted(p) \/ tasks[p] # <<>>)
            => /\ Cardinality(Indices(tasks[p], IsSync)) = 1
               /\ Cardinality(Indices(tasks[p], IsPipeline)) = 1
               /\ \A i \in Indices(tasks[p], IsSync) :
                      \A j \in Indices(tasks[p], IsPipeline) : i < j
               /\ Indices(tasks[p], IsCleanup) \subseteq {Len(tasks[p])}

\* a standard chain with its cleanup and a local-trusted chain without one
C4_Witness ==
    \E p, q \in Inv :
        /\ job[p] = "localbuild" /\ Submitted(p)
        /\ Indices(tasks[p], IsCleanup) = {Len(tasks[p])}
        /\ job[q] = "localtrusted" /\ Submitted(q)
        /\ Indices(tasks[q], IsCleanup) = {}

CloneUrl(p) == Dict(repodata)[repository[p]].clone_url

\* C5: in localbuild, a chain for a clone URL classified as SSH starts with
\* ssh-init (no arguments), then ssh-scan, then git-sync; ssh-scan gets
\* ["-p", port, host] when a (non-empty) port was captured and [host]
\* otherwise; ssh://git@host.example:2222/repo.git gives ssh-init,
\* ssh-scan(["-p", "2222", "host.example"]), git-sync, runpipeline, cleanup.
C5_SshChain ==
    \A p \in Inv :
        (job[p] = "localbuild" /\ Submitted(p) /\ Classify(CloneUrl(p)).isSSH)
            => LET m == Classify(CloneUrl(p)).match
               IN  /\ Len(tasks[p]) = 5
                   /\ tasks[p][1] = Task("ssh-init", <<>>)
                   /\ tasks[p][2].name = "ssh-scan"
                   /\ tasks[p][2].args =
                          IF m.g2set /\ m.g2 # <<>>
                          THEN << <<"-","p">>, m.g2, m.g1>>
                          ELSE <<m.g1>>
                   /\ tasks[p][3].name = "git-sync"
                   /\ CloneUrl(p) = URL_SshPort
                          => /\ tasks[p][2].args =
                                    << <<"-","p">>, <<"2","2","2","2">>,
                                       <<"h","o","s","t",".","e","x","a","m","p","l","e">> >>
                             /\ [i \in 1..5 |-> tasks[p][i].name] =
                                    <<"ssh-init", "ssh-scan", "git-sync",
                                      "runpipeline", "cleanup">>

\* chains were submitted for the URL with a port, for one without a port
\* and for one whose port is empty
C5_Witness ==
    \E p, q \in Inv :
        /\ job[p] = "localbuild" /\ Submitted(p) /\ CloneUrl(p) = URL_SshPort
        /\ Len(tasks[p][2].args) = 3
        /\ job[q] = "localbuild" /\ Submitted(q)
        /\ CloneUrl(q) \in {URL_SshNoPort, URL_SshEmptyPort}
        /\ Len(tasks[q][2].args) = 1

Listed(p) == repodata # None /\ repository[p] \in DOMAIN Dict(repodata)
Dispatched(p) == job[p] = "gopherci" /\ Started(p)

\* C6: a dispatch for a repository that is not in the configuration spawns
\* no handler, submits no task and says nothing to the user; it logs one
\* diagnostic and ends.
C6_UnlistedDeclined ==
    \A p \in Inv :
        (Dispatched(p) /\ ~Listed(p))
            => /\ spawned[p] = <<>>
               /\ tasks[p] = <<>>
               /\ says[p] = <<>>
               /\ Len(logs[p]) = 1
               /\ logs[p][1].level = "Debug"
               /\ pc[p] = "declined"

\* a dispatch for an unlisted repository has ended
C6_Witness ==
    \E p \in Inv : Dispatched(p) /\ ~Listed(p) /\ pc[p] = "declined"

HasType(p) == Listed(p) /\ "type" \in DOMAIN Dict(repodata)[repository[p]]

\* C7: a dispatch for an entry of type "none" spawns no handler and submits
\* no task; it logs one diagnostic and ends.
C7_NoneDeclined ==
    \A p \in Inv :
        (Dispatched(p) /\ HasType(p) /\ Dict(repodata)[repository[p]].type = "none")
            => /\ spawned[p] = <<>>
               /\ tasks[p] = <<>>
               /\ Len(logs[p]) = 1
               /\ logs[p][1].level = "Debug"
               /\ pc[p] = "declined"

\* a dispatch for an entry of type "none" has ended
C7_Witness ==
    \E p \in Inv :
        /\ Dispatched(p) /\ HasType(p)
        /\ Dict(repodata)[repository[p]].type = "none"
        /\ pc[p] = "declined"

\* C8: a dispatch for a listed repository without a type sends exactly one
\* user-visible error and ends without spawning a handler.
C8_NoTypeError ==
    \A p \in Inv :
        (Dispatched(p) /\ Listed(p) /\ ~HasType(p))
            => /\ Len(says[p]) = 1
               /\ spawned[p] = <<>>
               /\ tasks[p] = <<>>
               /\ pc[p] = "error"

\* a dispatch for a listed repository without a type has ended
C8_Witness ==
    \E p \in Inv : Dispatched(p) /\ Listed(p) /\ ~HasType(p) /\ pc[p] = "error"

\* the terminal outcomes of a dispatch, read off the calls it made
OutcomeDeclined(p) == says[p] = <<>> /\ spawned[p] = <<>> /\ Len(logs[p]) = 1
OutcomeError(p) == Len(says[p]) = 1 /\ spawned[p] = <<>> /\ logs[p] = <<>>
OutcomeSpawned(p) == Len(spawned[p]) = 1 /\ says[p] = <<>> /\ logs[p] = <<>>

\* C9: a dispatch for an entry whose type is not "none" spawns exactly one
\* handler, named by the type, with the event's (repository, branch); every
\* dispatch ends declined, with a user-visible error, or spawned, exactly one
\* of the three, and never spawns more than once.
C9_SpawnByType ==
    \A p \in Inv :
        Dispatched(p)
            => /\ (HasType(p) /\ Dict(repodata)[repository[p]].type # "none")
                      => spawned[p] = <<[name |-> Dict(repodata)[repository[p]].type,
                                         args |-> <<repository[p], branch[p]>>]>>
               /\ Len(spawned[p]) <= 1
               /\ pc[p] \in {"declined", "error", "spawned"}
               /\ Cardinality({o \in {"declined", "error", "spawned"} :
                      \/ o = "declined" /\ OutcomeDeclined(p)
                      \/ o = "error" /\ OutcomeError(p)
                      \/ o = "spawned" /\ OutcomeSpawned(p)}) = 1

\* two dispatches spawned the handlers of two different types
C9_Witness ==
    \E p, q \in Inv :
        /\ Dispatched(p) /\ OutcomeSpawned(p) /\ spawned[p][1].name = "localbuild"
        /\ Dispatched(q) /\ OutcomeSpawned(q) /\ spawned[q][1].name = "localtrusted"

Orchestrated(p) == job[p] \in {"localbuild", "localtrusted"} /\ Started(p)

\* C10: localbuild and localtrusted, run for an entry without clone_url,
\* send exactly one user-visible error and end: no lock acquired, no history
\* slot allocated, no task submitted.
C10_NoCloneUrl ==
    \A p \in Inv :
        (Orchestrated(p) /\ Listed(p) /\ "clone_url" \notin DOMAIN Dict(repodata)[repository[p]])
            => /\ Len(says[p]) = 1
               /\ pc[p] = "error"
               /\ exclusive[p] = {}
               /\ tasks[p] = <<>>
               /\ \A k \in Keys : \A i \in 1..Len(allocs[k]) : allocs[k][i].by # p

\* both orchestrators have ended on an entry without clone_url
C10_Witness ==
    \E p, q \in Inv :
        /\ job[p] = "localbuild" /\ pc[p] = "error" /\ Listed(p)
        /\ job[q] = "localtrusted" /\ pc[q] = "error" /\ Listed(q)

TaskNames(p) == [i \in 1..Len(tasks[p]) |-> tasks[p][i].name]

\* C11: a local-trusted build of git@host:repo.git submits exactly ssh-init,
\* ssh-scan(["host"]), git-sync, localexec([".gopherci/pipeline.sh"]), and
\* no cleanup.
C11_TrustedSshChain ==
    \A p \in Inv :
        (job[p] = "localtrusted" /\ Submitted(p) /\ CloneUrl(p) = URL_Scp)
            => /\ TaskNames(p) = <<"ssh-init", "ssh-scan", "git-sync", "localexec">>
               /\ tasks[p][1].args = <<>>
               /\ tasks[p][2].args = << <<"h","o","s","t">> >>
               /\ tasks[p][4].args = <<STR_pipeline_sh>>

\* a URL that starts with http:// or https://
HttpScheme(url) ==
    \/ StartsWith(url, <<"h","t","t","p",":","/","/">>)
    \/ StartsWith(url, <<"h","t","t","p","s",":","/","/">>)

\* C12: in localbuild, a clone URL that starts with http:// or https:// gives
\* exactly git-sync, runpipeline, cleanup: no ssh-init and no ssh-scan.
C12_HttpChain ==
    \A p \in Inv :
        (job[p] = "localbuild" /\ Submitted(p) /\ HttpScheme(CloneUrl(p)))
            => /\ TaskNames(p) = <<"git-sync", "runpipeline", "cleanup">>
               /\ tasks[p][1].args[1] = CloneUrl(p)
               /\ tasks[p][2].args = <<>>
               /\ tasks[p][3].args = <<>>

\* chains were submitted for an http:// URL and for an https:// URL
C12_Witness ==
    \E p, q \in Inv :
        /\ job[p] = "localbuild" /\ Submitted(p) /\ CloneUrl(p) = URL_Http
        /\ job[q] = "localbuild" /\ Submitted(q) /\ CloneUrl(q) = URL_Https
        /\ Len(tasks[p]) = 3 /\ Len(tasks[q]) = 3

\* the keys of the localbuild build attempts in progress
KeysInBuild == {RepoBranch(repository[p], branch[p]) : p \in {q \in Inv : InBuild(q)}}

\* C13: a key is locked exactly while a build attempt that acquired it is in
\* progress: the only step that frees a key is the end of the task chain of
\* the invocation that holds it, which then holds nothing and never releases
\* again; an invocation that did not acquire the lock holds nothing to
\* release; once the build has ended the key is free for the next event.
C13_ReleaseOnce ==
    [][/\ locks' = KeysInBuild'
       /\ \A p \in Inv : pc'[p] \in {"busy", "done"} => exclusive'[p] = {}
       /\ \A k \in Keys :
              (k \in locks /\ k \notin locks')
                  => \E p \in Inv :
                         /\ exclusive[p] = {k}
                         /\ pc[p] = "submitted" /\ pc'[p] = "done"
                         /\ \A q \in Inv \ {p} : k \notin exclusive[q]]_vars

\* a build of a key has ended and a later invocation holds the same key
C13_Witness ==
    \E p, q \in Inv :
        /\ p # q
        /\ job[p] = "localbuild" /\ pc[p] = "done"
        /\ InBuild(q) /\ exclusive[q] = {RepoBranch(repository[p], branch[p])}

\* the key of an orchestrator invocation as the specification derives it
LockKey(p) == RepoBranch(repository[p], branch[p])

\* C14: in localbuild and in localtrusted, an invocation whose slot is
\* allocated and whose chain is submitted holds the lock of its key while its
\* build is in progress, so no two invocations for one (repository, branch)
\* have their builds in progress together.
C14_AllocUnderLock ==
    /\ \A p \in Inv :
           (Orchestrated(p) /\ pc[p] = "submitted") => exclusive[p] = {LockKey(p)}
    /\ \A p, q \in Inv :
           (/\ p # q
            /\ Orchestrated(p) /\ pc[p] = "submitted"
            /\ Orchestrated(q) /\ pc[q] = "submitted"
            /\ job[p] = job[q])
               => LockKey(p) # LockKey(q)

\* C15: a localbuild invocation that finds the lock of its key held aborts;
\* the step leaves the lock table, the history slots, every task list and
\* every user-visible output as they were, and logs one warning.
C15_BusyNoSideEffects ==
    [][\A p \in Inv :
           (pc[p] = "exclusive" /\ pc'[p] # "exclusive")
               => /\ LockKey(p) \in locks <=> pc'[p] = "busy"
                  /\ pc'[p] = "busy"
                         => /\ locks' = locks
                            /\ exclusive' = exclusive
                            /\ history' = history
                            /\ allocs' = allocs
                            /\ tasks' = tasks
                            /\ says' = says
                            /\ spawned' = spawned
                            /\ \A q \in Inv \ {p} : logs'[q] = logs[q]
                            /\ Len(logs'[p]) = Len(logs[p]) + 1
                            /\ SubSeq(logs'[p], 1, Len(logs[p])) = logs[p]
                            /\ logs'[p][Len(logs'[p])].level = "Warn"]_vars

\* an invocation was turned away while the holder's chain was in flight
C15_Witness ==
    \E p, q \in Inv :
        /\ job[q] = "localbuild" /\ pc[q] = "busy"
        /\ pc[p] = "submitted" /\ exclusive[p] = {LockKey(q)}
        /\ tasks[p] # <<>> /\ tasks[q] = <<>>
        /\ history[LockKey(q)] # <<>>

\* the script has reached line 52, where the key is derived
KeyDerived(p) == pc[p] \in {"exclusive", "extend", "busy", "submitted", "done"}

\* C16: two localbuild events with different (repository, branch) pairs
\* have different keys, so an invocation is only turned away because of a
\* build of its own pair, and the allocations of a history series all come
\* from one pair.
C16_KeyUnique ==
    /\ \A p, q \in Inv :
           (/\ job[p] = "localbuild" /\ KeyDerived(p)
            /\ job[q] = "localbuild" /\ KeyDerived(q)
            /\ <<repository[p], branch[p]>> # <<repository[q], branch[q]>>)
               => LockKey(p) # LockKey(q)
    /\ \A q \in Inv :
           (job[q] = "localbuild" /\ pc[q] = "busy")
               => \E p \in Inv \ {q} :
                      /\ job[p] = "localbuild"
                      /\ pc[p] \in {"extend", "submitted", "done"}
                      /\ repository[p] = repository[q] /\ branch[p] = branch[q]
    /\ \A k \in Keys : \A i, j \in 1..Len(allocs[k]) :
           (job[allocs[k][i].by] = "localbuild" /\ job[allocs[k][j].by] = "localbuild")
               => /\ repository[allocs[k][i].by] = repository[allocs[k][j].by]
                  /\ branch[allocs[k][i].by] = branch[allocs[k][j].by]

\* C17: in localbuild, the bare path /srv/repo.git gets no ssh-init and no
\* ssh-scan: the chain is exactly git-sync (with the bare URL), runpipeline,
\* cleanup.
C17_BarePathChain ==
    \A p \in Inv :
        (job[p] = "localbuild" /\ Submitted(p) /\ CloneUrl(p) = URL_Path)
            => /\ TaskNames(p) = <<"git-sync", "runpipeline", "cleanup">>
               /\ tasks[p][1].args = <<URL_Path, branch[p], LockKey(p), STR_true>>

\* C18: in localbuild and in localtrusted, the history slot is allocated
\* under the key repository + "/" + branch, and git-sync gets exactly
\* [clone_url, branch, that key, "true"].
C18_KeyIsRepoBranch ==
    \A p \in Inv :
        (Orchestrated(p) /\ Submitted(p))
            => /\ \E i \in 1..Len(allocs[LockKey(p)]) : allocs[LockKey(p)][i].by = p
               /\ \E i \in 1..Len(tasks[p]) :
                      tasks[p][i] = Task("git-sync",
                          <<CloneUrl(p), branch[p], LockKey(p), <<"t","r","u","e">> >>)

\* C20: localbuild and localtrusted, run for a repository without an entry
\* in the configuration, send one user-visible error and end as for any
\* configuration error: no crash, no lock, no history slot, no task.
C20_UnlistedError ==
    \A p \in Inv :
        (Orchestrated(p) /\ ~Listed(p))
            => /\ pc[p] = "error"
               /\ Len(says[p]) = 1
               /\ exclusive[p] = {}
               /\ tasks[p] = <<>>
               /\ \A k \in Keys : \A i \in 1..Len(allocs[k]) : allocs[k][i].by # p

\* the script of an invocation has ended
ScriptEnded(p) == pc[p] \in {"error", "crashed", "busy", "submitted", "done"}

\* the steps a script has left before its end
StepsLeft(p) ==
    IF pc[p] = "exclusive" THEN 2 ELSE IF pc[p] = "extend" THEN 1 ELSE 0

\* C19: a started localbuild or localtrusted script that has not ended can
\* always take its next step, whatever the lock table holds (it never waits
\* for the holder of its key), every step it takes brings it closer to its
\* end, at most two steps away, and an ended script stays ended.
C19_Terminates ==
    /\ [](\A p \in Inv :
              (Orchestrated(p) /\ ~ScriptEnded(p)) => ENABLED ScriptStep(p))
    /\ [][\A p \in Inv :
              /\ (Orchestrated(p) /\ ~ScriptEnded(p) /\ pc'[p] # pc[p])
                     => StepsLeft(p)' < StepsLeft(p)
              /\ (Orchestrated(p) /\ ScriptEnded(p)) => ScriptEnded(p)']_vars

\* a script has ended, turned away, while the holder of its key has not even
\* submitted its chain
C19_Witness ==
    \E p, q \in Inv :
        /\ job[q] = "localbuild" /\ pc[q] = "busy" /\ ScriptEnded(q)
        /\ pc[p] = "extend" /\ LockKey(q) \in exclusive[p]

====
